---- MODULE Spec2Model ----
(***************************************************************************)
(* Booking conflict engine, wallet ledger and team invitations of the      *)
(* pitch-booking backend.                                                  *)
(*                                                                         *)
(* The store is modelled as sequences of rows (a row's serial id is its    *)
(* index).  Money is counted in hundredths (numeric columns of scale 2).   *)
(* A time of day is the pair <<hour, minute>> that split(':').map(Number)  *)
(* yields; a booking_date input is an instant counted in half days since   *)
(* the epoch, which toISOString().split('T')[0] cuts down to a day.        *)
(*                                                                         *)
(* Every handler exists twice.  SpecBooking and SpecWallet serve one       *)
(* request at a time: a route accepts the input (call becomes running),    *)
(* the handler runs as one atomic action and records what it returned or   *)
(* threw, and the response is sent (call is cleared).  SpecBookingConc and *)
(* SpecWalletConc run the same handlers as the sequence of their awaited   *)
(* store round-trips, interleaved between concurrent requests.  Both are   *)
(* built from the same operators on rows.  SpecAdjustConc interleaves the  *)
(* wallet calls with admin adjustments, every store call answering, and    *)
(* SpecTeams serves the team routes one request at a time.                 *)
(***************************************************************************)
EXTENDS Integers, Sequences, FiniteSets, TLC

VARIABLES
    bookings,            \* bookingsTable rows
    wallets,             \* walletsTable rows
    walletTransactions,  \* walletTransactionsTable rows
    call,                \* the request served alone: route, input, outcome
    pc,                  \* per concurrent request: the await it is suspended at
    req,                 \* per concurrent request: its arguments and local variables
    succeeded,           \* per user: sum of the signed amounts of the concurrent calls that returned
    teams,               \* teamsTable rows
    teamMembers,         \* teamMembersTable rows
    invitations          \* invitationsTable rows

vars == <<bookings, wallets, walletTransactions, call, pc, req, succeeded,
          teams, teamMembers, invitations>>

teamVars == <<teams, teamMembers, invitations>>

walletVars == <<wallets, walletTransactions>>
procVars == <<pc, req, succeeded>>

---------------------------------------------------------------------------
\* Bounds

MaxBookings == 2
MaxTx == 2
MaxCalls == 3
NumProcs == 2
MaxTeams == 1
MaxInvitations == 2

Procs == 1..NumProcs

---------------------------------------------------------------------------
\* Rows the handlers only read

NoRow == [absent |-> TRUE]

\* usersTable: users 1 and 4 are active players, user 2 is a deactivated
\* facility owner, user 3 does not exist.
UsersTable ==
    [ id \in {1, 2, 4} |->
        [ is_active |-> id # 2,
          role |-> IF id = 2 THEN "facility_owner" ELSE "player" ] ]

\* facilitiesTable: facilities 1 and 2 are active, facility 3 is not; all
\* three belong to user 2.
FacilitiesTable ==
    << [owner_id |-> 2, is_active |-> TRUE],
       [owner_id |-> 2, is_active |-> TRUE],
       [owner_id |-> 2, is_active |-> FALSE] >>

\* pitchesTable: hourly_rate in hundredths; pitch 5 does not exist.
PitchesTable ==
    << [facility_id |-> 1, hourly_rate |-> 5000, is_active |-> TRUE],
       [facility_id |-> 2, hourly_rate |-> 1345, is_active |-> TRUE],
       [facility_id |-> 1, hourly_rate |-> 5000, is_active |-> FALSE],
       [facility_id |-> 3, hourly_rate |-> 5000, is_active |-> TRUE] >>

PlayerIds == {1, 2, 3}
PitchIds == {1, 2, 3, 4, 5}
Instants == {0, 1, 2}
Times == {<<10, 30>>, <<11, 0>>, <<12, 0>>}

\* every request of the active player for a bookable pitch, and for each bad
\* player and each bad pitch a request with a good and with a bad time range
BookingInputs ==
    [player_id : {1}, pitch_id : {1, 2}, booking_date : Instants,
     start_time : Times, end_time : Times]
    \cup [player_id : PlayerIds, pitch_id : PitchIds, booking_date : {0},
          start_time : {<<10, 30>>}, end_time : {<<10, 30>>, <<11, 0>>}]

---------------------------------------------------------------------------
\* Requests served one at a time

Running == "running"
Ok == "ok"

NoCall == [op |-> "none", input |-> NoRow, outcome |-> Ok, result |-> <<>>]

\* a route of appRouter accepts an input and invokes its handler
accept(op, input) ==
    /\ call = NoCall
    /\ call' = [op |-> op, input |-> input, outcome |-> Running, result |-> <<>>]

\* the handler of route op is running
serving(op) == call.op = op /\ call.outcome = Running

\* the handler of route op has returned or thrown
served(op) == call.op = op /\ call.outcome # Running

\* the response is sent
respond ==
    /\ call # NoCall
    /\ call.outcome # Running
    /\ call' = NoCall
    /\ UNCHANGED <<teamVars, bookings, walletVars, procVars>>

---------------------------------------------------------------------------
\* createBooking

PlayerNotFound == "Player not found or inactive"
PitchNotFound == "Pitch not found or inactive"
InvalidTimeRange == "End time must be after start time"
SlotConflict == "Time slot conflicts with existing confirmed booking"

\* select from users where id = player_id and is_active
findActiveUser(id) ==
    IF id \in DOMAIN UsersTable /\ UsersTable[id].is_active THEN UsersTable[id] ELSE NoRow

\* select from pitches inner join facilities where pitch and facility are active
findActivePitchWithFacility(id) ==
    IF /\ id \in DOMAIN PitchesTable
       /\ PitchesTable[id].is_active
       /\ PitchesTable[id].facility_id \in DOMAIN FacilitiesTable
       /\ FacilitiesTable[PitchesTable[id].facility_id].is_active
    THEN PitchesTable[id]
    ELSE NoRow

\* hour * 60 + minute
timeInMinutes(t) == t[1] * 60 + t[2]

\* new Date(booking_date).toISOString().split('T')[0]
bookingDate(instant) == instant \div 2

MutConflictingAnyStatus(rows, input) ==
    { i \in DOMAIN rows :
        /\ rows[i].pitch_id = input.pitch_id
        /\ rows[i].booking_date = bookingDate(input.booking_date) }

\* the conflict query: this pitch, this date, status confirmed
conflictingBookings(rows, input) ==
    { i \in DOMAIN rows :
        /\ rows[i].pitch_id = input.pitch_id
        /\ rows[i].booking_date = bookingDate(input.booking_date)
        /\ rows[i].status = "confirmed" }

MutOverlapClosed(startA, endA, startB, endB) ==
    timeInMinutes(startA) <= timeInMinutes(endB) /\ timeInMinutes(endA) >= timeInMinutes(startB)

\* startTimeInMinutes < existingEndInMinutes && endTimeInMinutes > existingStartInMinutes
overlap(startA, endA, startB, endB) ==
    timeInMinutes(startA) < timeInMinutes(endB) /\ timeInMinutes(endA) > timeInMinutes(startB)

hasConflict(rows, found, input) ==
    \E i \in found :
        overlap(input.start_time, input.end_time, rows[i].start_time, rows[i].end_time)

---------------------------------------------------------------------------
\* The arithmetic of createBooking's price.  A JavaScript number is an
\* IEEE-754 binary64: zero, or m * 2^e with m a whole number of 53 bits.
\* m is kept as its bits, lowest first, the highest bit being 1.

SignificandBits == 53

Zero == [m |-> <<>>, e |-> 0]

\* 2^k for k < 31
pow2(k) ==
    << 1, 2, 4, 8, 16, 32, 64, 128, 256, 512, 1024, 2048, 4096, 8192, 16384, 32768,
       65536, 131072, 262144, 524288, 1048576, 2097152, 4194304, 8388608, 16777216,
       33554432, 67108864, 134217728, 268435456, 536870912, 1073741824 >>[k + 1]

bitAt(bits, i) == IF i \in DOMAIN bits THEN bits[i] ELSE 0

\* the j-th group of 11 bits of a bit string, as a number below 2048
digitAt(bits, j) ==
    LET b(t) == bitAt(bits, 11 * (j - 1) + t)
    IN  b(1) + 2 * b(2) + 4 * b(3) + 8 * b(4) + 16 * b(5) + 32 * b(6) + 64 * b(7)
        + 128 * b(8) + 256 * b(9) + 512 * b(10) + 1024 * b(11)

\* the whole number below 2^31 that a bit string spells
natOf(bits) == digitAt(bits, 1) + 2048 * digitAt(bits, 2) + 4194304 * digitAt(bits, 3)

\* the bits of the digits of 11 bits
bitsOfDigits(digits) ==
    [i \in 1..(11 * Len(digits)) |-> (digits[(i - 1) \div 11 + 1] \div pow2((i - 1) % 11)) % 2]

\* bits + 1
incrementBits(bits) ==
    IF \A i \in DOMAIN bits : bits[i] = 1
    THEN [i \in 1..(Len(bits) + 1) |-> IF i = Len(bits) + 1 THEN 1 ELSE 0]
    ELSE LET z == CHOOSE i \in DOMAIN bits : bits[i] = 0 /\ \A j \in 1..(i - 1) : bits[j] = 1
         IN  [i \in DOMAIN bits |-> IF i < z THEN 0 ELSE IF i = z THEN 1 ELSE bits[i]]

RECURSIVE carryDigits(_, _, _)
\* the column sums of a long multiplication, carried into digits of 11 bits
carryDigits(columns, k, carry) ==
    IF k > Len(columns) THEN <<>>
    ELSE <<(columns[k] + carry) % 2048>>
         \o carryDigits(columns, k + 1, (columns[k] + carry) \div 2048)

\* a * b on bit strings of at most 55 bits, by long multiplication in
\* digits of 11 bits
mulBits(a, b) ==
    LET columns == [k \in 1..10 |->
                       LET term(i) == IF k - i + 1 \in 1..5
                                      THEN digitAt(a, i) * digitAt(b, k - i + 1) ELSE 0
                       IN  term(1) + term(2) + term(3) + term(4) + term(5)]
        bits == bitsOfDigits(carryDigits(columns, 1, 0))
        top == CHOOSE i \in 0..110 :
                  /\ i > 0 => bits[i] = 1
                  /\ \A j \in (i + 1)..110 : bits[j] = 0
    IN  SubSeq(bits, 1, top)

\* a < b for two bit strings of one length
lessBits(a, b) ==
    \E i \in DOMAIN a :
        /\ a[i] < b[i]
        /\ \A j \in (i + 1)..Len(a) : a[j] = b[j]

\* a < b for two binary64 numbers >= 0
lessDouble(a, b) ==
    IF b = Zero THEN FALSE
    ELSE IF a = Zero THEN TRUE
    ELSE a.e < b.e \/ (a.e = b.e /\ lessBits(a.m, b.m))

\* round the whole number bits * 2^e to 53 bits, to nearest, ties to even
roundToDouble(bits, e) ==
    LET drop == Len(bits) - SignificandBits
        kept == SubSeq(bits, drop + 1, Len(bits))
        up == /\ bits[drop] = 1
              /\ \/ kept[1] = 1
                 \/ \E i \in 1..(drop - 1) : bits[i] = 1
        sum == IF up THEN incrementBits(kept) ELSE kept
    IN  IF Len(sum) > SignificandBits
        THEN [m |-> Tail(sum), e |-> e + drop + 1]
        ELSE [m |-> sum, e |-> e + drop]

\* the power of two with 2^binade <= num / den < 2^(binade + 1)
binade(num, den) ==
    CHOOSE k \in -29..29 :
        IF k >= 0 THEN den <= num \div pow2(k) /\ num \div pow2(k + 1) < den
                  ELSE /\ (den + pow2(-k) - 1) \div pow2(-k) <= num
                       /\ num <= (2 * den - 1) \div pow2(-k)

\* the binary64 nearest to num / den: what parsing a decimal and what the
\* division of two whole numbers yield.  num / den is brought into [1, 2),
\* divided out to 55 binary places, 11 at a time, and rounded.
nearestDouble(num, den) ==
    IF num = 0 THEN Zero
    ELSE LET k == binade(num, den)
             n == IF k < 0 THEN num * pow2(-k) ELSE num
             d == IF k > 0 THEN den * pow2(k) ELSE den
             r1 == n - d
             r2 == (r1 * 2048) % d
             r3 == (r2 * 2048) % d
             r4 == (r3 * 2048) % d
             r5 == (r4 * 2048) % d
             r6 == (r5 * 2048) % d
             places == bitsOfDigits(<< (r5 * 2048) \div d, (r4 * 2048) \div d,
                                       (r3 * 2048) \div d, (r2 * 2048) \div d,
                                       (r1 * 2048) \div d >>)
             sticky == IF r6 = 0 THEN 0 ELSE 1
         IN  roundToDouble(<<sticky>> \o places \o <<1>>, k - 56)

\* parseFloat of a numeric column of scale 2 that holds the given hundredths
\* (amounts below 10000.00, so that no intermediate number passes 2^31)
parseFloat(hundredths) == nearestDouble(hundredths, 100)

\* a * b in binary64
times(a, b) ==
    IF a = Zero \/ b = Zero THEN Zero
    ELSE roundToDouble(mulBits(a.m, b.m), a.e + b.e)

\* the whole hundredths in x (x < 2^53): floor(x * 100)
wholeCents(x) ==
    IF x = Zero THEN 0
    ELSE LET bits == mulBits(x.m, <<0, 0, 1, 0, 0, 1, 1>>)
         IN  IF -x.e >= Len(bits) THEN 0
             ELSE natOf(SubSeq(bits, 1 - x.e, Len(bits)))

\* x.toString() stored in a numeric column of scale 2, in hundredths.
\* toString prints the shortest decimal that reads back as x, and the column
\* rounds that decimal half away from zero; so x is rounded up from
\* c hundredths exactly when x is not below the binary64 that the decimal
\* c.5 hundredths reads back as.
toNumericScale2(x) ==
    LET c == wholeCents(x)
    IN  IF lessDouble(x, nearestDouble(2 * c + 1, 200)) THEN c ELSE c + 1

\* (endTimeInMinutes - startTimeInMinutes) / 60
durationInHours(minutes) == nearestDouble(minutes, 60)

HourlyRates == { PitchesTable[i].hourly_rate : i \in DOMAIN PitchesTable }
Durations == { timeInMinutes(b) - timeInMinutes(a) : a \in Times, b \in Times } \cap Nat

\* parseFloat(hourly_rate) * durationInHours, as total_amount.toString() in
\* a numeric(10,2) column, for every rate and duration in minutes
storedAmounts ==
    [ rate \in HourlyRates |->
        [ minutes \in Durations |->
            toNumericScale2(times(parseFloat(rate), durationInHours(minutes))) ] ]

\* hourlyRate * durationInHours, stored in a numeric(10,2) column
totalAmount(rate, input) ==
    storedAmounts[rate][timeInMinutes(input.end_time) - timeInMinutes(input.start_time)]

MutValidationAllowsEqualTimes(input) ==
    IF findActiveUser(input.player_id) = NoRow THEN PlayerNotFound
    ELSE IF findActivePitchWithFacility(input.pitch_id) = NoRow THEN PitchNotFound
    ELSE IF timeInMinutes(input.end_time) < timeInMinutes(input.start_time)
         THEN InvalidTimeRange
    ELSE Ok

MutValidationPitchFirst(input) ==
    IF findActivePitchWithFacility(input.pitch_id) = NoRow THEN PitchNotFound
    ELSE IF findActiveUser(input.player_id) = NoRow THEN PlayerNotFound
    ELSE IF timeInMinutes(input.end_time) <= timeInMinutes(input.start_time)
         THEN InvalidTimeRange
    ELSE Ok

\* the checks made before the conflict query, in the order of the code
validationError(input) ==
    IF findActiveUser(input.player_id) = NoRow THEN PlayerNotFound
    ELSE IF findActivePitchWithFacility(input.pitch_id) = NoRow THEN PitchNotFound
    ELSE IF timeInMinutes(input.end_time) <= timeInMinutes(input.start_time)
         THEN InvalidTimeRange
    ELSE Ok

MutNewBookingConfirmed(input) ==
    [ player_id |-> input.player_id,
      pitch_id |-> input.pitch_id,
      facility_id |-> PitchesTable[input.pitch_id].facility_id,
      booking_date |-> bookingDate(input.booking_date),
      start_time |-> input.start_time,
      end_time |-> input.end_time,
      status |-> "confirmed",
      total_amount |-> totalAmount(PitchesTable[input.pitch_id].hourly_rate, input) ]

\* the values of db.insert(bookingsTable)
newBooking(input) ==
    [ player_id |-> input.player_id,
      pitch_id |-> input.pitch_id,
      facility_id |-> PitchesTable[input.pitch_id].facility_id,
      booking_date |-> bookingDate(input.booking_date),
      start_time |-> input.start_time,
      end_time |-> input.end_time,
      status |-> "pending",
      total_amount |-> totalAmount(PitchesTable[input.pitch_id].hourly_rate, input) ]

\* the outcome of a createBooking call that runs alone on table rows
createBookingOutcome(rows, input) ==
    IF validationError(input) # Ok THEN validationError(input)
    ELSE IF hasConflict(rows, conflictingBookings(rows, input), input) THEN SlotConflict
    ELSE Ok

\* bookings.create accepts an input
bookingsCreate(input) ==
    /\ accept("createBooking", input)
    /\ UNCHANGED <<teamVars, bookings, walletVars, procVars>>

MutCreateBookingCancelsPending ==
    /\ serving("createBooking")
    /\ LET out == createBookingOutcome(bookings, call.input)
           kept == [i \in DOMAIN bookings |->
                       [bookings[i] EXCEPT !.status = IF @ = "pending" THEN "cancelled" ELSE @]]
       IN  /\ out = Ok => Len(bookings) < MaxBookings
           /\ bookings' = IF out = Ok THEN Append(kept, newBooking(call.input))
                                      ELSE bookings
           /\ call' = [call EXCEPT !.outcome = out]
    /\ UNCHANGED <<teamVars, walletVars, procVars>>

\* createBooking as one call running alone
createBooking ==
    /\ serving("createBooking")
    /\ LET out == createBookingOutcome(bookings, call.input)
       IN  /\ out = Ok => Len(bookings) < MaxBookings
           /\ bookings' = IF out = Ok THEN Append(bookings, newBooking(call.input))
                                      ELSE bookings
           /\ call' = [call EXCEPT !.outcome = out]
    /\ UNCHANGED <<teamVars, walletVars, procVars>>

\* createBooking of request p up to its last await: the player, pitch and
\* time checks, the conflict query and the test of what the query returned
createBookingSelect(p, input) ==
    /\ pc[p] = "idle"
    /\ LET out == createBookingOutcome(bookings, input)
       IN  /\ out = Ok =>
                Len(bookings) + Cardinality({q \in Procs : pc[q] = "insertBooking"}) < MaxBookings
           /\ pc' = [pc EXCEPT ![p] = IF out = Ok THEN "insertBooking" ELSE "idle"]
           /\ req' = [req EXCEPT ![p] = IF out = Ok THEN input ELSE NoRow]
    /\ UNCHANGED <<teamVars, bookings, walletVars, call, succeeded>>

\* createBooking of request p resumed: db.insert(bookingsTable)
createBookingInsert(p) ==
    /\ pc[p] = "insertBooking"
    /\ bookings' = Append(bookings, newBooking(req[p]))
    /\ pc' = [pc EXCEPT ![p] = "idle"]
    /\ req' = [req EXCEPT ![p] = NoRow]
    /\ UNCHANGED <<teamVars, walletVars, call, succeeded>>

\* the status transition of a pending booking (accept, reject, cancel)
updateBookingStatus(id, status) ==
    /\ id \in DOMAIN bookings
    /\ bookings[id].status = "pending"
    /\ call = NoCall
    /\ bookings' = [bookings EXCEPT ![id].status = status]
    /\ UNCHANGED <<teamVars, walletVars, call, procVars>>


---------------------------------------------------------------------------
\* Wallet ledger

WalletNotFound == "Wallet not found"
InsufficientBalance == "Insufficient wallet balance"
StorageError == "violates foreign key constraint"

UserIds == {1, 2, 3}
Amounts == {-1, 0, 1, 2}
PositiveAmounts == {1, 2}
Limits == {-1, 0, 1}
DebitTypes == {"booking_payment", "tournament_fee"}
CreditTypes == {"facility_payout", "admin_adjustment"}

\* the id of the wallet row of userId, 0 when there is none (null)
getWalletByUserId(ws, userId) ==
    IF \E i \in DOMAIN ws : ws[i].user_id = userId
    THEN CHOOSE i \in DOMAIN ws : ws[i].user_id = userId /\ \A j \in 1..(i - 1) : ws[j].user_id # userId
    ELSE 0

\* user_id references users.id
userExists(userId) == userId \in DOMAIN UsersTable

MutInsertWalletPreCredited(ws, userId) ==
    Append(ws, [user_id |-> userId, balance |-> 1, max_negative_balance |-> 0])

\* db.insert(walletsTable).values({ user_id, balance: '0', max_negative_balance: '0' })
insertWallet(ws, userId) ==
    Append(ws, [user_id |-> userId, balance |-> 0, max_negative_balance |-> 0])

\* db.insert(walletTransactionsTable).values({ wallet_id, type, amount })
MutInsertTransactionOverLast(txs, walletId, type, amount) ==
    LET row == [wallet_id |-> walletId, type |-> type, amount |-> amount]
    IN  IF txs = <<>> THEN <<row>> ELSE [txs EXCEPT ![Len(txs)] = row]

insertTransaction(txs, walletId, type, amount) ==
    Append(txs, [wallet_id |-> walletId, type |-> type, amount |-> amount])

\* set balance = balance + delta where id = walletId
updateBalance(ws, walletId, delta) ==
    [ws EXCEPT ![walletId].balance = @ + delta]

MutCheckStrict(ws, userId, requiredAmount) ==
    LET id == getWalletByUserId(ws, userId)
    IN  IF id = 0 THEN FALSE
        ELSE ws[id].balance + ws[id].max_negative_balance > requiredAmount

MutCheckAbsentWalletPasses(ws, userId, requiredAmount) ==
    LET id == getWalletByUserId(ws, userId)
    IN  IF id = 0 THEN TRUE
        ELSE ws[id].balance + ws[id].max_negative_balance >= requiredAmount

MutCheckIgnoresAmount(ws, userId, requiredAmount) ==
    LET id == getWalletByUserId(ws, userId)
    IN  IF id = 0 THEN FALSE
        ELSE ws[id].balance + ws[id].max_negative_balance >= 0

\* availableBalance = balance + max_negative_balance >= requiredAmount
checkWalletBalance(ws, userId, requiredAmount) ==
    LET id == getWalletByUserId(ws, userId)
    IN  IF id = 0 THEN FALSE
        ELSE ws[id].balance + ws[id].max_negative_balance >= requiredAmount

\* a route that may insert a transaction row accepts an input
acceptMutation(op, input) ==
    /\ Len(walletTransactions) < MaxTx
    /\ accept(op, input)
    /\ UNCHANGED <<teamVars, bookings, walletVars, procVars>>

walletTopUp(input) == acceptMutation("topUpWallet", input)
walletDebit(input) == acceptMutation("debitWallet", input)
walletCredit(input) == acceptMutation("creditWallet", input)
adminAdjustWalletBalance(input) == acceptMutation("adjustWalletBalance", input)

adminSetMaxNegativeBalance(input) ==
    /\ accept("setMaxNegativeBalance", input)
    /\ UNCHANGED <<teamVars, bookings, walletVars, procVars>>

\* get or create the wallet, insert the transaction, add to the balance
creditRows(userId, type, amount) ==
    LET found == getWalletByUserId(wallets, userId)
        ws == IF found = 0 THEN insertWallet(wallets, userId) ELSE wallets
        id == IF found = 0 THEN Len(ws) ELSE found
    IN  IF found = 0 /\ ~userExists(userId)
        THEN /\ call' = [call EXCEPT !.outcome = StorageError]
             /\ UNCHANGED walletVars
        ELSE /\ walletTransactions' = insertTransaction(walletTransactions, id, type, amount)
             /\ wallets' = updateBalance(ws, id, amount)
             /\ call' = [call EXCEPT !.outcome = Ok]

\* topUpWallet as one call running alone
topUpWallet ==
    /\ serving("topUpWallet")
    /\ creditRows(call.input.userId, "topup", call.input.amount)
    /\ UNCHANGED <<teamVars, bookings, procVars>>

\* creditWallet as one call running alone
creditWallet ==
    /\ serving("creditWallet")
    /\ creditRows(call.input.userId, call.input.type, call.input.amount)
    /\ UNCHANGED <<teamVars, bookings, procVars>>

MutDebitInsertsBeforeCheck ==
    /\ serving("debitWallet")
    /\ LET id == getWalletByUserId(wallets, call.input.userId)
       IN  IF id = 0
           THEN /\ call' = [call EXCEPT !.outcome = WalletNotFound]
                /\ UNCHANGED walletVars
           ELSE /\ walletTransactions' =
                      insertTransaction(walletTransactions, id, call.input.type, -call.input.amount)
                /\ IF ~checkWalletBalance(wallets, call.input.userId, call.input.amount)
                   THEN /\ call' = [call EXCEPT !.outcome = InsufficientBalance]
                        /\ UNCHANGED wallets
                   ELSE /\ wallets' = updateBalance(wallets, id, -call.input.amount)
                        /\ call' = [call EXCEPT !.outcome = Ok]
    /\ UNCHANGED <<teamVars, bookings, procVars>>

\* debitWallet as one call running alone
debitWallet ==
    /\ serving("debitWallet")
    /\ LET id == getWalletByUserId(wallets, call.input.userId)
       IN  IF id = 0
           THEN /\ call' = [call EXCEPT !.outcome = WalletNotFound]
                /\ UNCHANGED walletVars
           ELSE IF ~checkWalletBalance(wallets, call.input.userId, call.input.amount)
           THEN /\ call' = [call EXCEPT !.outcome = InsufficientBalance]
                /\ UNCHANGED walletVars
           ELSE /\ walletTransactions' =
                      insertTransaction(walletTransactions, id, call.input.type, -call.input.amount)
                /\ wallets' = updateBalance(wallets, id, -call.input.amount)
                /\ call' = [call EXCEPT !.outcome = Ok]
    /\ UNCHANGED <<teamVars, bookings, procVars>>

\* adjustWalletBalance as one call running alone: the new balance is
\* computed from the balance read, then the transaction is inserted
MutAdjustSetsBalance ==
    /\ serving("adjustWalletBalance")
    /\ LET id == getWalletByUserId(wallets, call.input.userId)
       IN  IF id = 0
           THEN /\ call' = [call EXCEPT !.outcome = WalletNotFound]
                /\ UNCHANGED walletVars
           ELSE /\ wallets' = [wallets EXCEPT ![id].balance = call.input.amount]
                /\ walletTransactions' =
                      insertTransaction(walletTransactions, id, "admin_adjustment", call.input.amount)
                /\ call' = [call EXCEPT !.outcome = Ok]
    /\ UNCHANGED <<teamVars, bookings, procVars>>

adjustWalletBalance ==
    /\ serving("adjustWalletBalance")
    /\ LET id == getWalletByUserId(wallets, call.input.userId)
       IN  IF id = 0
           THEN /\ call' = [call EXCEPT !.outcome = WalletNotFound]
                /\ UNCHANGED walletVars
           ELSE /\ wallets' = [wallets EXCEPT ![id].balance = wallets[id].balance + call.input.amount]
                /\ walletTransactions' =
                      insertTransaction(walletTransactions, id, "admin_adjustment", call.input.amount)
                /\ call' = [call EXCEPT !.outcome = Ok]
    /\ UNCHANGED <<teamVars, bookings, procVars>>

\* setMaxNegativeBalance: update wallets set max_negative_balance where user_id
setMaxNegativeBalance ==
    /\ serving("setMaxNegativeBalance")
    /\ LET id == getWalletByUserId(wallets, call.input.userId)
       IN  IF id = 0
           THEN /\ call' = [call EXCEPT !.outcome = WalletNotFound]
                /\ UNCHANGED wallets
           ELSE /\ wallets' = [wallets EXCEPT ![id].max_negative_balance = call.input.maxAmount]
                /\ call' = [call EXCEPT !.outcome = Ok]
    /\ UNCHANGED <<teamVars, bookings, walletTransactions, procVars>>

\* wallet.checkBalance accepts an input
walletCheckBalance(input) ==
    /\ accept("checkWalletBalance", input)
    /\ UNCHANGED <<teamVars, bookings, walletVars, procVars>>

\* the boolean a query returns, as the route sends it
returned(b) == IF b THEN "true" ELSE "false"

\* wallet.checkBalance: checkWalletBalance as one call running alone
checkBalance ==
    /\ serving("checkWalletBalance")
    /\ call' = [call EXCEPT !.outcome =
                   returned(checkWalletBalance(wallets, call.input.userId,
                                               call.input.requiredAmount))]
    /\ UNCHANGED <<teamVars, bookings, walletVars, procVars>>

---------------------------------------------------------------------------
\* Wallet queries

QueryLimits == {-1, 0, 1, 50}

LimitError == "LIMIT must not be negative"

\* wallet.getTransactions accepts an input (limit is 50 when left out)
walletGetTransactions(input) ==
    /\ accept("getWalletTransactions", input)
    /\ UNCHANGED <<teamVars, bookings, walletVars, procVars>>

\* created_at (defaultNow) of transaction row i: a row inserted later has a
\* later time; rows are kept in the order of their insertion
createdAt(txs, i) == i

RECURSIVE MutOrderByAsc(_, _)
MutOrderByAsc(txs, ids) ==
    IF ids = {} THEN <<>>
    ELSE LET first == CHOOSE i \in ids : \A j \in ids : createdAt(txs, i) <= createdAt(txs, j)
         IN  <<txs[first]>> \o MutOrderByAsc(txs, ids \ {first})

RECURSIVE orderByDesc(_, _)
\* the rows of a set of row ids, the one with the greatest created_at first
orderByDesc(txs, ids) ==
    IF ids = {} THEN <<>>
    ELSE LET first == CHOOSE i \in ids : \A j \in ids : createdAt(txs, j) <= createdAt(txs, i)
         IN  <<txs[first]>> \o orderByDesc(txs, ids \ {first})

\* the first limit rows of a query result
limitRows(rows, limit) == SubSeq(rows, 1, IF limit < Len(rows) THEN limit ELSE Len(rows))

\* getWalletTransactions as one call running alone
getWalletTransactions ==
    /\ serving("getWalletTransactions")
    /\ LET id == getWalletByUserId(wallets, call.input.userId)
           ids == { i \in DOMAIN walletTransactions : walletTransactions[i].wallet_id = id }
       IN  call' = IF id = 0 THEN [call EXCEPT !.outcome = Ok]
                   ELSE IF call.input.limit < 0 THEN [call EXCEPT !.outcome = LimitError]
                   ELSE [call EXCEPT !.outcome = Ok,
                                     !.result = limitRows(orderByDesc(walletTransactions, ids),
                                                          call.input.limit)]
    /\ UNCHANGED <<teamVars, bookings, walletVars, procVars>>

\* admin.getFinancialSettlements is called
adminGetFinancialSettlements ==
    /\ accept("getFinancialSettlements", NoRow)
    /\ UNCHANGED <<teamVars, bookings, walletVars, procVars>>

\* the entry getFinancialSettlements makes of one joined row
settlementOf(wallet) ==
    LET balance == wallet.balance
        maxNegativeBalance == wallet.max_negative_balance
    IN  [ facilityOwnerId |-> wallet.user_id,
          balance |-> balance,
          settlementAmount |->
              IF balance > 0 THEN balance
              ELSE IF balance < 0 - maxNegativeBalance
                   THEN (IF balance + maxNegativeBalance < 0
                         THEN 0 - (balance + maxNegativeBalance)
                         ELSE balance + maxNegativeBalance)
              ELSE 0,
          settlementType |->
              IF balance > 0 THEN "payout"
              ELSE IF balance < 0 - maxNegativeBalance THEN "collection"
              ELSE "payout" ]

\* getFinancialSettlements as one call running alone: users inner join
\* wallets where role = facility_owner (the rows come in no stated order)
getFinancialSettlements ==
    /\ serving("getFinancialSettlements")
    /\ call' = [call EXCEPT
                  !.outcome = Ok,
                  !.result = { settlementOf(wallets[w]) :
                                 w \in { i \in DOMAIN wallets :
                                           /\ wallets[i].user_id \in DOMAIN UsersTable
                                           /\ UsersTable[wallets[i].user_id].role
                                                 = "facility_owner" } }]
    /\ UNCHANGED <<teamVars, bookings, walletVars, procVars>>

\* wallet.getFacilitySummary is called
walletGetFacilitySummary ==
    /\ accept("getFacilityWalletSummary", NoRow)
    /\ UNCHANGED <<teamVars, bookings, walletVars, procVars>>

\* users left join facilities left join wallets left join wallet
\* transactions, for one user: one row per combination, 0 standing for the
\* null of a left join that found nothing
joinedRows(userId) ==
    LET facilities == { f \in DOMAIN FacilitiesTable : FacilitiesTable[f].owner_id = userId }
        ws == { w \in DOMAIN wallets : wallets[w].user_id = userId }
        txsOf(w) == { t \in DOMAIN walletTransactions : walletTransactions[t].wallet_id = w }
    IN  { [facility |-> f, wallet |-> w, transaction |-> t] :
            f \in (IF facilities = {} THEN {0} ELSE facilities),
            w \in (IF ws = {} THEN {0} ELSE ws),
            t \in DOMAIN walletTransactions \cup {0} }
        \cap
        { row \in [facility : 0..Len(FacilitiesTable), wallet : 0..Len(wallets),
                   transaction : 0..Len(walletTransactions)] :
            IF row.wallet = 0 THEN row.transaction = 0
            ELSE IF txsOf(row.wallet) = {} THEN row.transaction = 0
            ELSE row.transaction \in txsOf(row.wallet) }

RECURSIVE sumBookingPayments(_)
\* SUM(CASE WHEN type = 'booking_payment' THEN amount ELSE 0 END) over joined rows
sumBookingPayments(rows) ==
    IF rows = {} THEN 0
    ELSE LET row == CHOOSE r \in rows : TRUE
             tx == IF row.transaction = 0 THEN NoRow ELSE walletTransactions[row.transaction]
         IN  (IF row.transaction # 0 /\ tx.type = "booking_payment" THEN tx.amount ELSE 0)
             + sumBookingPayments(rows \ {row})

\* the entry getFacilityWalletSummary makes of one group (user id, balance);
\* owedAmount = totalBookingRevenue * -0.85 is counted in ten-thousandths
summaryOf(userId) ==
    LET rows == joinedRows(userId)
        wallet == (CHOOSE r \in rows : TRUE).wallet
    IN  [ userId |-> userId,
          balance |-> IF wallet = 0 THEN 0 ELSE wallets[wallet].balance,
          owedAmount |-> sumBookingPayments(rows) * (0 - 85) ]

\* getFacilityWalletSummary as one call running alone
getFacilityWalletSummary ==
    /\ serving("getFacilityWalletSummary")
    /\ call' = [call EXCEPT
                  !.outcome = Ok,
                  !.result = { summaryOf(u) :
                                 u \in { id \in DOMAIN UsersTable :
                                           UsersTable[id].role = "facility_owner" } }]
    /\ UNCHANGED <<teamVars, bookings, walletVars, procVars>>

---------------------------------------------------------------------------
\* Wallet handlers as interleaved store round-trips

inFlight == Cardinality({q \in Procs : pc[q] # "idle"})

\* a concurrent request starts only while the ledger has room for its row
mayStart(p) ==
    /\ pc[p] = "idle"
    /\ Len(walletTransactions) + inFlight < MaxCalls

\* topUpWallet / creditWallet of request p: getWalletByUserId
creditGetWallet(p, op, userId, type, amount) ==
    /\ mayStart(p)
    /\ LET id == getWalletByUserId(wallets, userId)
       IN  /\ req' = [req EXCEPT ![p] = [op |-> op, userId |-> userId, type |-> type,
                                         amount |-> amount, wallet_id |-> id,
                                         balance |-> IF id = 0 THEN 0 ELSE wallets[id].balance]]
           /\ pc' = [pc EXCEPT ![p] = IF id = 0 THEN "insertWallet" ELSE "insertTransaction"]
    /\ UNCHANGED <<teamVars, bookings, walletVars, call, succeeded>>

\* topUpWallet / creditWallet of request p: db.insert(walletsTable); the
\* unique constraint on user_id rejects a second wallet of the user
creditInsertWallet(p) ==
    /\ pc[p] = "insertWallet"
    /\ IF getWalletByUserId(wallets, req[p].userId) # 0 \/ ~userExists(req[p].userId)
       THEN /\ pc' = [pc EXCEPT ![p] = "idle"]
            /\ req' = [req EXCEPT ![p] = NoRow]
            /\ UNCHANGED wallets
       ELSE /\ wallets' = insertWallet(wallets, req[p].userId)
            /\ req' = [req EXCEPT ![p].wallet_id = Len(wallets) + 1]
            /\ pc' = [pc EXCEPT ![p] = "insertTransaction"]
    /\ UNCHANGED <<teamVars, bookings, walletTransactions, call, succeeded>>

\* debitWallet of request p: getWalletByUserId, throws when there is none
debitGetWallet(p, userId, type, amount) ==
    /\ mayStart(p)
    /\ LET id == getWalletByUserId(wallets, userId)
       IN  IF id = 0
           THEN UNCHANGED <<pc, req>>
           ELSE /\ req' = [req EXCEPT ![p] = [op |-> "debitWallet", userId |-> userId,
                                              type |-> type, amount |-> -amount,
                                              wallet_id |-> id,
                                              balance |-> wallets[id].balance]]
                /\ pc' = [pc EXCEPT ![p] = "checkWalletBalance"]
    /\ UNCHANGED <<teamVars, bookings, walletVars, call, succeeded>>

\* debitWallet of request p: checkWalletBalance reads the wallet again
debitCheckBalance(p) ==
    /\ pc[p] = "checkWalletBalance"
    /\ IF checkWalletBalance(wallets, req[p].userId, -req[p].amount)
       THEN /\ pc' = [pc EXCEPT ![p] = "insertTransaction"]
            /\ UNCHANGED req
       ELSE /\ pc' = [pc EXCEPT ![p] = "idle"]
            /\ req' = [req EXCEPT ![p] = NoRow]
    /\ UNCHANGED <<teamVars, bookings, walletVars, call, succeeded>>

\* request p: db.insert(walletTransactionsTable) with the signed amount
requestInsertTransaction(p) ==
    /\ pc[p] = "insertTransaction"
    /\ walletTransactions' =
          insertTransaction(walletTransactions, req[p].wallet_id, req[p].type, req[p].amount)
    /\ pc' = [pc EXCEPT ![p] = "updateBalance"]
    /\ UNCHANGED <<teamVars, bookings, wallets, call, req, succeeded>>

MutBalanceFromStaleRead(p) ==
    /\ pc[p] = "updateBalance"
    /\ wallets' = [wallets EXCEPT ![req[p].wallet_id].balance = req[p].balance + req[p].amount]
    /\ succeeded' = [succeeded EXCEPT ![req[p].userId] = @ + req[p].amount]
    /\ pc' = [pc EXCEPT ![p] = "idle"]
    /\ req' = [req EXCEPT ![p] = NoRow]
    /\ UNCHANGED <<teamVars, bookings, walletTransactions, call>>

\* request p: db.update(walletsTable) set balance = balance + amount, then return
requestUpdateBalance(p) ==
    /\ pc[p] = "updateBalance"
    /\ wallets' = updateBalance(wallets, req[p].wallet_id, req[p].amount)
    /\ succeeded' = [succeeded EXCEPT ![req[p].userId] = @ + req[p].amount]
    /\ pc' = [pc EXCEPT ![p] = "idle"]
    /\ req' = [req EXCEPT ![p] = NoRow]
    /\ UNCHANGED <<teamVars, bookings, walletTransactions, call>>

AdjustAmounts == {-1, 1, 2}

\* adjustWalletBalance of request p: select the wallet, throw when there is none
adjustGetWallet(p, userId, amount) ==
    /\ mayStart(p)
    /\ LET id == getWalletByUserId(wallets, userId)
       IN  IF id = 0
           THEN UNCHANGED <<pc, req>>
           ELSE /\ req' = [req EXCEPT ![p] = [op |-> "adjustWalletBalance", userId |-> userId,
                                              type |-> "admin_adjustment", amount |-> amount,
                                              wallet_id |-> id,
                                              balance |-> wallets[id].balance]]
                /\ pc' = [pc EXCEPT ![p] = "adjustUpdateBalance"]
    /\ UNCHANGED <<teamVars, bookings, walletVars, call, succeeded>>

\* adjustWalletBalance of request p: newBalance = the balance read + amount;
\* db.update(walletsTable) set balance = newBalance
adjustUpdateBalance(p) ==
    /\ pc[p] = "adjustUpdateBalance"
    /\ wallets' = [wallets EXCEPT ![req[p].wallet_id].balance = req[p].balance + req[p].amount]
    /\ pc' = [pc EXCEPT ![p] = "adjustInsertTransaction"]
    /\ UNCHANGED <<teamVars, bookings, walletTransactions, call, req, succeeded>>

\* adjustWalletBalance of request p: db.insert(walletTransactionsTable), then return
adjustInsertTransaction(p) ==
    /\ pc[p] = "adjustInsertTransaction"
    /\ walletTransactions' =
          insertTransaction(walletTransactions, req[p].wallet_id, req[p].type, req[p].amount)
    /\ succeeded' = [succeeded EXCEPT ![req[p].userId] = @ + req[p].amount]
    /\ pc' = [pc EXCEPT ![p] = "idle"]
    /\ req' = [req EXCEPT ![p] = NoRow]
    /\ UNCHANGED <<teamVars, bookings, wallets, call>>

\* the awaited store call of request p throws; the catch block rethrows
storeFailure(p) ==
    /\ pc[p] # "idle"
    /\ pc' = [pc EXCEPT ![p] = "idle"]
    /\ req' = [req EXCEPT ![p] = NoRow]
    /\ UNCHANGED <<teamVars, bookings, walletVars, call, succeeded>>

---------------------------------------------------------------------------
\* Team handlers

CaptainNotActivePlayer == "Captain must be an active player"
TeamNotFoundOrNotCaptain == "Team not found or user is not the captain"
TargetPlayerNotFound == "Target player not found or not active"
AlreadyMember == "Player is already a member of this team"
InvitationExists == "Invitation already exists for this player"
TeamNotFound == "Team not found or not active"
PlayerNotActive == "Player not found or not active"
JoinRequestExists == "Join request already exists for this team"
InvitationNotFound == "Invitation not found or already processed"

TeamUserIds == {1, 2, 3, 4}
TeamIds == 1..(MaxTeams + 1)
InvitationIds == 1..(MaxInvitations + 1)

\* users where id = userId and role = 'player' and is_active
activePlayerExists(userId) ==
    /\ userId \in DOMAIN UsersTable
    /\ UsersTable[userId].role = "player"
    /\ UsersTable[userId].is_active

\* team_members where team_id and player_id and is_active
existingMember(members, teamId, playerId) ==
    { m \in DOMAIN members :
        /\ members[m].team_id = teamId
        /\ members[m].player_id = playerId
        /\ members[m].is_active }

\* db.insert(teamMembersTable): is_active defaults to true
insertTeamMember(members, teamId, playerId) ==
    Append(members, [team_id |-> teamId, player_id |-> playerId, is_active |-> TRUE])

\* db.insert(invitationsTable) of a pending team_join invitation
insertInvitation(invs, senderId, receiverId, teamId) ==
    Append(invs, [sender_id |-> senderId, receiver_id |-> receiverId, team_id |-> teamId,
                  type |-> "team_join", status |-> "pending"])

\* teams.create accepts an input
teamsCreate(input) ==
    /\ Len(teams) < MaxTeams
    /\ accept("createTeam", input)
    /\ UNCHANGED <<teamVars, bookings, walletVars, procVars>>

\* teams.invitePlayer accepts an input
teamsInvitePlayer(input) ==
    /\ Len(invitations) < MaxInvitations
    /\ accept("invitePlayerToTeam", input)
    /\ UNCHANGED <<teamVars, bookings, walletVars, procVars>>

\* teams.requestJoin accepts an input
teamsRequestJoin(input) ==
    /\ Len(invitations) < MaxInvitations
    /\ accept("requestToJoinTeam", input)
    /\ UNCHANGED <<teamVars, bookings, walletVars, procVars>>

\* teams.respondToInvitation accepts an input
teamsRespondToInvitation(input) ==
    /\ accept("respondToTeamInvitation", input)
    /\ UNCHANGED <<teamVars, bookings, walletVars, procVars>>

\* createTeam as one call running alone
createTeam ==
    /\ serving("createTeam")
    /\ IF ~activePlayerExists(call.input.captainId)
       THEN /\ call' = [call EXCEPT !.outcome = CaptainNotActivePlayer]
            /\ UNCHANGED <<teams, teamMembers>>
       ELSE /\ teams' = Append(teams, [captain_id |-> call.input.captainId, is_active |-> TRUE])
            /\ teamMembers' = insertTeamMember(teamMembers, Len(teams) + 1, call.input.captainId)
            /\ call' = [call EXCEPT !.outcome = Ok]
    /\ UNCHANGED <<invitations, bookings, walletVars, procVars>>

\* invitePlayerToTeam as one call running alone
invitePlayerToTeam ==
    /\ serving("invitePlayerToTeam")
    /\ LET teamId == call.input.teamId
           captainId == call.input.captainId
           playerId == call.input.playerId
           outcome ==
               IF ~( /\ teamId \in DOMAIN teams
                     /\ teams[teamId].captain_id = captainId
                     /\ teams[teamId].is_active )
               THEN TeamNotFoundOrNotCaptain
               ELSE IF ~activePlayerExists(playerId) THEN TargetPlayerNotFound
               ELSE IF existingMember(teamMembers, teamId, playerId) # {} THEN AlreadyMember
               ELSE IF \E i \in DOMAIN invitations :
                          /\ invitations[i].team_id = teamId
                          /\ invitations[i].receiver_id = playerId
                          /\ invitations[i].status = "pending"
                          /\ invitations[i].type = "team_join"
               THEN InvitationExists
               ELSE Ok
       IN  /\ call' = [call EXCEPT !.outcome = outcome]
           /\ invitations' = IF outcome = Ok
                             THEN insertInvitation(invitations, captainId, playerId, teamId)
                             ELSE invitations
    /\ UNCHANGED <<teams, teamMembers, bookings, walletVars, procVars>>

\* requestToJoinTeam as one call running alone
requestToJoinTeam ==
    /\ serving("requestToJoinTeam")
    /\ LET teamId == call.input.teamId
           playerId == call.input.playerId
           outcome ==
               IF ~(teamId \in DOMAIN teams /\ teams[teamId].is_active) THEN TeamNotFound
               ELSE IF ~activePlayerExists(playerId) THEN PlayerNotActive
               ELSE IF existingMember(teamMembers, teamId, playerId) # {} THEN AlreadyMember
               ELSE IF \E i \in DOMAIN invitations :
                          /\ invitations[i].team_id = teamId
                          /\ invitations[i].sender_id = playerId
                          /\ invitations[i].status = "pending"
                          /\ invitations[i].type = "team_join"
               THEN JoinRequestExists
               ELSE Ok
       IN  /\ call' = [call EXCEPT !.outcome = outcome]
           /\ invitations' = IF outcome = Ok
                             THEN insertInvitation(invitations, playerId,
                                                   teams[teamId].captain_id, teamId)
                             ELSE invitations
    /\ UNCHANGED <<teams, teamMembers, bookings, walletVars, procVars>>

\* who joins: the receiver of a captain's invitation, the sender of a request
playerToAdd(inviteData) ==
    IF inviteData.sender_id = inviteData.receiver_id THEN inviteData.sender_id
    ELSE IF teams[inviteData.team_id].captain_id = inviteData.sender_id
    THEN inviteData.receiver_id
    ELSE inviteData.sender_id

MutRespondAnswersAnyStatus ==
    /\ serving("respondToTeamInvitation")
    /\ LET id == call.input.invitationId
       IN  IF ~(id \in DOMAIN invitations)
           THEN /\ call' = [call EXCEPT !.outcome = InvitationNotFound]
                /\ UNCHANGED <<invitations, teamMembers>>
           ELSE /\ invitations' = [invitations EXCEPT
                                     ![id].status = IF call.input.accept THEN "accepted"
                                                    ELSE "rejected"]
                /\ teamMembers' =
                      IF call.input.accept
                      THEN insertTeamMember(teamMembers, invitations[id].team_id,
                                            playerToAdd(invitations[id]))
                      ELSE teamMembers
                /\ call' = [call EXCEPT !.outcome = Ok]
    /\ UNCHANGED <<teams, bookings, walletVars, procVars>>

\* respondToTeamInvitation as one call running alone
respondToTeamInvitation ==
    /\ serving("respondToTeamInvitation")
    /\ LET id == call.input.invitationId
       IN  IF ~( /\ id \in DOMAIN invitations
                 /\ invitations[id].status = "pending"
                 /\ invitations[id].type = "team_join" )
           THEN /\ call' = [call EXCEPT !.outcome = InvitationNotFound]
                /\ UNCHANGED <<invitations, teamMembers>>
           ELSE /\ invitations' = [invitations EXCEPT
                                     ![id].status = IF call.input.accept THEN "accepted"
                                                    ELSE "rejected"]
                /\ teamMembers' =
                      IF call.input.accept
                      THEN insertTeamMember(teamMembers, invitations[id].team_id,
                                            playerToAdd(invitations[id]))
                      ELSE teamMembers
                /\ call' = [call EXCEPT !.outcome = Ok]
    /\ UNCHANGED <<teams, bookings, walletVars, procVars>>

---------------------------------------------------------------------------

Init ==
    /\ bookings = <<>>
    /\ wallets = <<>>
    /\ walletTransactions = <<>>
    /\ call = NoCall
    /\ pc = [p \in Procs |-> "idle"]
    /\ req = [p \in Procs |-> NoRow]
    /\ succeeded = [u \in UserIds |-> 0]
    /\ teams = <<>>
    /\ teamMembers = <<>>
    /\ invitations = <<>>

NextBooking ==
    \/ \E input \in BookingInputs : bookingsCreate(input)
    \/ createBooking
    \/ \E id \in 1..MaxBookings, status \in {"confirmed", "rejected", "cancelled"} :
          updateBookingStatus(id, status)
    \/ respond

SpecBooking == Init /\ [][NextBooking]_vars

NextBookingConc ==
    \/ \E p \in Procs, input \in BookingInputs : createBookingSelect(p, input)
    \/ \E p \in Procs : createBookingInsert(p)
    \/ \E id \in 1..MaxBookings, status \in {"confirmed", "rejected", "cancelled"} :
          updateBookingStatus(id, status)

SpecBookingConc == Init /\ [][NextBookingConc]_vars

NextWallet ==
    \/ \E input \in [userId : UserIds, amount : Amounts] : walletTopUp(input)
    \/ \E input \in [userId : UserIds, amount : Amounts, type : DebitTypes] : walletDebit(input)
    \/ \E input \in [userId : UserIds, amount : Amounts, type : CreditTypes] : walletCredit(input)
    \/ \E input \in [userId : UserIds, amount : Amounts] : adminAdjustWalletBalance(input)
    \/ \E input \in [userId : UserIds, maxAmount : Limits] : adminSetMaxNegativeBalance(input)
    \/ \E input \in [userId : UserIds, requiredAmount : Amounts] : walletCheckBalance(input)
    \/ checkBalance
    \/ \E input \in [userId : UserIds, limit : QueryLimits] : walletGetTransactions(input)
    \/ getWalletTransactions
    \/ adminGetFinancialSettlements
    \/ getFinancialSettlements
    \/ walletGetFacilitySummary
    \/ getFacilityWalletSummary
    \/ topUpWallet
    \/ debitWallet
    \/ creditWallet
    \/ adjustWalletBalance
    \/ setMaxNegativeBalance
    \/ respond

SpecWallet == Init /\ [][NextWallet]_vars

NextWalletConc ==
    \/ \E p \in Procs, userId \in UserIds, amount \in PositiveAmounts :
          creditGetWallet(p, "topUpWallet", userId, "topup", amount)
    \/ \E p \in Procs, userId \in UserIds, amount \in PositiveAmounts, type \in CreditTypes :
          creditGetWallet(p, "creditWallet", userId, type, amount)
    \/ \E p \in Procs, userId \in UserIds, amount \in PositiveAmounts, type \in DebitTypes :
          debitGetWallet(p, userId, type, amount)
    \/ \E p \in Procs :
          \/ creditInsertWallet(p)
          \/ debitCheckBalance(p)
          \/ requestInsertTransaction(p)
          \/ requestUpdateBalance(p)
          \/ storeFailure(p)

SpecWalletConc == Init /\ [][NextWalletConc]_vars

\* wallet calls and admin adjustments interleaved, every store call answering
NextAdjustConc ==
    \/ \E p \in Procs, userId \in UserIds, amount \in PositiveAmounts :
          creditGetWallet(p, "topUpWallet", userId, "topup", amount)
    \/ \E p \in Procs, userId \in UserIds, amount \in PositiveAmounts, type \in CreditTypes :
          creditGetWallet(p, "creditWallet", userId, type, amount)
    \/ \E p \in Procs, userId \in UserIds, amount \in PositiveAmounts, type \in DebitTypes :
          debitGetWallet(p, userId, type, amount)
    \/ \E p \in Procs, userId \in UserIds, amount \in AdjustAmounts :
          adjustGetWallet(p, userId, amount)
    \/ \E p \in Procs :
          \/ creditInsertWallet(p)
          \/ debitCheckBalance(p)
          \/ requestInsertTransaction(p)
          \/ requestUpdateBalance(p)
          \/ adjustUpdateBalance(p)
          \/ adjustInsertTransaction(p)

SpecAdjustConc == Init /\ [][NextAdjustConc]_vars

NextTeams ==
    \/ \E input \in [captainId : TeamUserIds] : teamsCreate(input)
    \/ \E input \in [teamId : TeamIds, captainId : TeamUserIds, playerId : TeamUserIds] :
          teamsInvitePlayer(input)
    \/ \E input \in [teamId : TeamIds, playerId : TeamUserIds] : teamsRequestJoin(input)
    \/ \E input \in [invitationId : InvitationIds, accept : BOOLEAN] :
          teamsRespondToInvitation(input)
    \/ createTeam
    \/ invitePlayerToTeam
    \/ requestToJoinTeam
    \/ respondToTeamInvitation
    \/ respond

SpecTeams == Init /\ [][NextTeams]_vars

\* the whole program, one request at a time
Next == NextBooking \/ NextWallet \/ NextTeams

Spec == Init /\ [][Next]_vars

---------------------------------------------------------------------------
\* Booking claims

sameSlot(row, input) ==
    row.pitch_id = input.pitch_id /\ row.booking_date = bookingDate(input.booking_date)

minutesOverlap(row, input) ==
    /\ input.start_time[1] * 60 + input.start_time[2] < row.end_time[1] * 60 + row.end_time[2]
    /\ input.end_time[1] * 60 + input.end_time[2] > row.start_time[1] * 60 + row.start_time[2]

\* the bookings the served createBooking call found in the table
bookingsBefore ==
    IF call.outcome = Ok THEN SubSeq(bookings, 1, Len(bookings) - 1) ELSE bookings

\* C1: any two distinct confirmed bookings on the same pitch and date have
\* disjoint half-open intervals [start_time, end_time).
C1_ConfirmedNeverOverlap ==
    \A i, j \in DOMAIN bookings :
        ( /\ i # j
          /\ bookings[i].status = "confirmed" /\ bookings[j].status = "confirmed"
          /\ bookings[i].pitch_id = bookings[j].pitch_id
          /\ bookings[i].booking_date = bookings[j].booking_date )
        => ~ ( /\ timeInMinutes(bookings[i].start_time) < timeInMinutes(bookings[j].end_time)
               /\ timeInMinutes(bookings[j].start_time) < timeInMinutes(bookings[i].end_time) )

\* C6: no createBooking inserts its row while a booking that is confirmed on
\* the same pitch and date overlaps the requested interval.
C6_InsertSeesNoConfirmedOverlap ==
    [][ \A p \in Procs :
            createBookingInsert(p) =>
                ~ \E i \in DOMAIN bookings :
                    /\ bookings[i].status = "confirmed"
                    /\ sameSlot(bookings[i], req[p])
                    /\ minutesOverlap(bookings[i], req[p]) ]_vars

\* C9: a createBooking request that passed the player, pitch and time-range
\* checks throws the slot conflict exactly when a confirmed booking of the
\* same pitch and date has new.start < existing.end and new.end >
\* existing.start, and otherwise succeeds and inserts its row; touching a
\* confirmed booking at a boundary is no conflict.
C9_SlotConflictIffOverlap ==
    (served("createBooking") /\ validationError(call.input) = Ok) =>
        LET clash == \E i \in DOMAIN bookingsBefore :
                        /\ bookingsBefore[i].status = "confirmed"
                        /\ sameSlot(bookingsBefore[i], call.input)
                        /\ minutesOverlap(bookingsBefore[i], call.input)
        IN  /\ call.outcome = SlotConflict <=> clash
            /\ call.outcome = Ok <=> ~clash
            /\ ~clash => /\ Len(bookings) > 0
                         /\ bookings[Len(bookings)].start_time = call.input.start_time
                         /\ bookings[Len(bookings)].end_time = call.input.end_time

\* C9 witness: a booking was just created that touches a confirmed booking
\* of the same pitch and date at a boundary.
C9_Witness ==
    /\ served("createBooking")
    /\ call.outcome = Ok
    /\ \E i \in DOMAIN bookingsBefore :
          /\ bookingsBefore[i].status = "confirmed"
          /\ sameSlot(bookingsBefore[i], call.input)
          /\ \/ call.input.end_time = bookingsBefore[i].start_time
             \/ call.input.start_time = bookingsBefore[i].end_time

\* C10: a request that passed the player, pitch and time-range checks and
\* that no confirmed booking of its pitch and date overlaps succeeds, whatever
\* pending, rejected or cancelled bookings and whatever bookings of other
\* pitches or dates overlap it.
C10_OnlyConfirmedSameSlotBlocks ==
    ( /\ served("createBooking")
      /\ validationError(call.input) = Ok
      /\ \A i \in DOMAIN bookingsBefore :
            minutesOverlap(bookingsBefore[i], call.input) =>
                \/ bookingsBefore[i].status \in {"pending", "rejected", "cancelled"}
                \/ bookingsBefore[i].pitch_id # call.input.pitch_id
                \/ bookingsBefore[i].booking_date # bookingDate(call.input.booking_date) )
    => call.outcome = Ok

\* C10 witness: a booking was just created although the table held, overlapping
\* it, a pending, a rejected or a cancelled booking of its pitch and date, or a
\* confirmed booking of another pitch or of another date.
C10_Witness ==
    /\ served("createBooking")
    /\ call.outcome = Ok
    /\ \E i \in DOMAIN bookingsBefore :
          /\ minutesOverlap(bookingsBefore[i], call.input)
          /\ \/ bookingsBefore[i].status # "confirmed" /\ sameSlot(bookingsBefore[i], call.input)
             \/ /\ bookingsBefore[i].status = "confirmed"
                /\ bookingsBefore[i].pitch_id # call.input.pitch_id
             \/ /\ bookingsBefore[i].status = "confirmed"
                /\ bookingsBefore[i].booking_date # bookingDate(call.input.booking_date)

\* the request names a player that exists and is active
activePlayer(input) ==
    input.player_id \in DOMAIN UsersTable /\ UsersTable[input.player_id].is_active

\* the request names a pitch that exists, is active and lies in an active facility
bookablePitch(input) ==
    /\ input.pitch_id \in DOMAIN PitchesTable
    /\ PitchesTable[input.pitch_id].is_active
    /\ FacilitiesTable[PitchesTable[input.pitch_id].facility_id].is_active

startMinutes(x) == x.start_time[1] * 60 + x.start_time[2]
endMinutes(x) == x.end_time[1] * 60 + x.end_time[2]

\* a confirmed booking of the requested pitch and date overlaps the request
confirmedClash(rows, input) ==
    \E i \in DOMAIN rows :
        /\ rows[i].status = "confirmed"
        /\ sameSlot(rows[i], input)
        /\ minutesOverlap(rows[i], input)

\* the createBooking call being served returns or throws in this step
createBookingSettles == serving("createBooking") /\ call'.outcome # Running

\* C11: a createBooking call whose end_time is, in minutes, equal to or
\* earlier than its start_time fails and inserts nothing, with the time-range
\* error when its player and pitch are good; every row createBooking inserts
\* has end_time strictly after start_time.
C11_InvalidTimeRangeInsertsNothing ==
    [][ createBookingSettles =>
            /\ endMinutes(call.input) <= startMinutes(call.input) =>
                  /\ call'.outcome # Ok
                  /\ bookings' = bookings
                  /\ (activePlayer(call.input) /\ bookablePitch(call.input))
                        => call'.outcome = InvalidTimeRange
            /\ bookings' # bookings =>
                  endMinutes(bookings'[Len(bookings')]) > startMinutes(bookings'[Len(bookings')])
      ]_vars

\* C11 witness: a request of the active player for a bookable pitch with
\* end_time equal to or before start_time was refused with the time-range
\* error while the table holds bookings.
C11_Witness ==
    /\ served("createBooking")
    /\ call.outcome = InvalidTimeRange
    /\ endMinutes(call.input) <= startMinutes(call.input)
    /\ Len(bookings) > 0

\* C12: createBooking reports the first check that fails, in the order
\* player (missing or inactive), pitch (missing, inactive or in an inactive
\* facility), time range (end <= start), overlap with a confirmed booking;
\* and succeeds when none fails.
C12_FirstFailingCheck ==
    served("createBooking") =>
        call.outcome =
            IF ~activePlayer(call.input) THEN PlayerNotFound
            ELSE IF ~bookablePitch(call.input) THEN PitchNotFound
            ELSE IF endMinutes(call.input) <= startMinutes(call.input) THEN InvalidTimeRange
            ELSE IF confirmedClash(bookingsBefore, call.input) THEN SlotConflict
            ELSE Ok

\* C12 witness: a request that fails the player check, the pitch check and the
\* time-range check at once was refused with the player error.
C12_Witness ==
    /\ served("createBooking")
    /\ call.outcome = PlayerNotFound
    /\ ~bookablePitch(call.input)
    /\ endMinutes(call.input) <= startMinutes(call.input)

\* C13: a createBooking call with an active player, a bookable pitch,
\* end_time after start_time and no overlapping confirmed booking succeeds and
\* appends exactly one row: pending, with the requested player, pitch, date
\* and times and with the facility of the pitch.
C13_ValidRequestInsertsPendingRow ==
    [][ ( /\ createBookingSettles
          /\ activePlayer(call.input) /\ bookablePitch(call.input)
          /\ endMinutes(call.input) > startMinutes(call.input)
          /\ ~confirmedClash(bookings, call.input) )
        => /\ call'.outcome = Ok
           /\ Len(bookings') = Len(bookings) + 1
           /\ SubSeq(bookings', 1, Len(bookings)) = bookings
           /\ LET row == bookings'[Len(bookings')]
              IN  /\ row.status = "pending"
                  /\ row.player_id = call.input.player_id
                  /\ row.pitch_id = call.input.pitch_id
                  /\ row.booking_date = call.input.booking_date \div 2
                  /\ row.start_time = call.input.start_time
                  /\ row.end_time = call.input.end_time
                  /\ row.facility_id = PitchesTable[call.input.pitch_id].facility_id
      ]_vars

\* C13 witness: a booking of a pitch of the second facility was just created,
\* in the second half of a day, next to an earlier booking.
C13_Witness ==
    /\ served("createBooking")
    /\ call.outcome = Ok
    /\ Len(bookings) = 2
    /\ bookings[2].facility_id = 2
    /\ call.input.booking_date = 1

\* C14: the total_amount of the booking a createBooking call created is, in
\* hundredths, hourly_rate * (end minutes - start minutes) / 60 rounded to the
\* nearest hundredth (a half rounds up).
C14_TotalAmountIsRateTimesDuration ==
    (served("createBooking") /\ call.outcome = Ok) =>
        LET row == bookings[Len(bookings)]
            rate == PitchesTable[row.pitch_id].hourly_rate
            minutes == endMinutes(row) - startMinutes(row)
        IN  row.total_amount = (2 * rate * minutes + 60) \div 120

\* C15: a createBooking call leaves wallets and wallet transactions alone and
\* leaves every existing booking as it is; it appends one row when it
\* succeeds and none when it fails.
C15_OnlyAppendsOneBooking ==
    [][ createBookingSettles =>
            /\ wallets' = wallets
            /\ walletTransactions' = walletTransactions
            /\ SubSeq(bookings', 1, Len(bookings)) = bookings
            /\ Len(bookings') = Len(bookings) + (IF call'.outcome = Ok THEN 1 ELSE 0)
      ]_vars

\* C15 witness: a booking was just created next to an earlier booking that is
\* still pending.
C15_Witness ==
    /\ served("createBooking")
    /\ call.outcome = Ok
    /\ Len(bookings) = 2
    /\ bookings[1].status = "pending"
    /\ sameSlot(bookings[1], call.input)

---------------------------------------------------------------------------
\* Wallet claims

RECURSIVE ledgerSum(_, _)
\* the sum of the amounts of the transaction rows of wallet walletId
ledgerSum(txs, walletId) ==
    IF txs = <<>> THEN 0
    ELSE (IF Head(txs).wallet_id = walletId THEN Head(txs).amount ELSE 0)
         + ledgerSum(Tail(txs), walletId)

allIdle == \A p \in Procs : pc[p] = "idle"

\* C2: in every state of the store every wallet's balance is the sum of the
\* amounts of its transaction rows.
C2_BalanceEqualsLedger ==
    \A id \in DOMAIN wallets : wallets[id].balance = ledgerSum(walletTransactions, id)

\* C3: when debitWallet has succeeded, the debited wallet has
\* balance >= -max_negative_balance.
C3_DebitKeepsFloor ==
    (served("debitWallet") /\ call.outcome = Ok) =>
        LET id == getWalletByUserId(wallets, call.input.userId)
        IN  /\ id # 0
            /\ wallets[id].balance >= -wallets[id].max_negative_balance

\* C3 witness: a debit has just succeeded and left the wallet overdrawn
\* exactly to its limit.
C3_Witness ==
    /\ served("debitWallet")
    /\ call.outcome = Ok
    /\ call.input.amount > 0
    /\ \E id \in DOMAIN wallets :
          /\ wallets[id].user_id = call.input.userId
          /\ wallets[id].balance < 0
          /\ wallets[id].balance = -wallets[id].max_negative_balance

\* C4: under concurrent debitWallet calls no wallet's balance drops below
\* -max_negative_balance.
C4_NoOverdraftUnderConcurrency ==
    \A id \in DOMAIN wallets : wallets[id].balance >= -wallets[id].max_negative_balance

\* C5: whatever the interleaving of topUpWallet, creditWallet and debitWallet
\* calls, a wallet's balance is the sum of the signed amounts of the calls on
\* it that have returned (wallets start at 0); in particular once all calls
\* have finished.
C5_NoLostUpdate ==
    \A id \in DOMAIN wallets : wallets[id].balance = succeeded[wallets[id].user_id]

\* C5 witness: two requests, one of them a debit, are both about to update the
\* balance of the same wallet.
C5_Witness ==
    \E p, q \in Procs :
        /\ p # q
        /\ pc[p] = "updateBalance" /\ pc[q] = "updateBalance"
        /\ req[p].wallet_id = req[q].wallet_id
        /\ req[p].op = "debitWallet"

\* C7: a debitWallet call for a user without a wallet throws the wallet-not-found
\* error, one for amount > balance + max_negative_balance throws the
\* insufficient-balance error, and a debitWallet call that throws changes no
\* wallet row and no transaction row.
C7_FailedDebitChangesNothing ==
    [][ (serving("debitWallet") /\ call'.outcome # Running) =>
            LET id == getWalletByUserId(wallets, call.input.userId)
            IN  /\ id = 0 => call'.outcome = WalletNotFound
                /\ (id # 0 /\ call.input.amount >
                        wallets[id].balance + wallets[id].max_negative_balance)
                      => call'.outcome = InsufficientBalance
                /\ call'.outcome # Ok =>
                      wallets' = wallets /\ walletTransactions' = walletTransactions ]_vars

\* C7 witness: a debit of more than the available amount has just been
\* refused on a wallet that has transactions.
C7_Witness ==
    /\ served("debitWallet")
    /\ call.outcome = InsufficientBalance
    /\ \E id \in DOMAIN wallets :
          /\ wallets[id].user_id = call.input.userId
          /\ ledgerSum(walletTransactions, id) # 0

\* C8: once no call is running any more, whether it returned or was
\* interrupted, every transaction row is reflected in its wallet's balance.
C8_NoHalfAppliedCall ==
    allIdle => \A id \in DOMAIN wallets :
                  wallets[id].balance = ledgerSum(walletTransactions, id)

\* the wallet call being served returns or throws in this step
walletCallSettles(op) == serving(op) /\ call'.outcome # Running

\* C16: a topUpWallet or creditWallet call with amount <= 0 is rejected and
\* creates no wallet, changes no balance and inserts no transaction row.
C16_NonPositiveCreditRejected ==
    [][ ( /\ walletCallSettles("topUpWallet") \/ walletCallSettles("creditWallet")
          /\ call.input.amount <= 0 )
        => /\ call'.outcome # Ok
           /\ wallets' = wallets
           /\ walletTransactions' = walletTransactions ]_vars

\* C17: a debitWallet call with amount <= 0 is rejected and changes no wallet
\* and no transaction row; no debitWallet call increases a balance.
C17_NonPositiveDebitRejected ==
    [][ walletCallSettles("debitWallet") =>
            /\ call.input.amount <= 0 =>
                  /\ call'.outcome # Ok
                  /\ wallets' = wallets
                  /\ walletTransactions' = walletTransactions
            /\ \A id \in DOMAIN wallets : wallets'[id].balance <= wallets[id].balance ]_vars

\* C18: when a topUpWallet or creditWallet call for a user without a wallet
\* has succeeded, the user has exactly one wallet, with balance = amount and
\* max_negative_balance = 0, and that wallet has exactly one transaction row,
\* of +amount; and the call succeeds when the user exists.
C18_CreditCreatesWallet ==
    [][ ( /\ walletCallSettles("topUpWallet") \/ walletCallSettles("creditWallet")
          /\ \A i \in DOMAIN wallets : wallets[i].user_id # call.input.userId )
        => /\ call.input.userId \in DOMAIN UsersTable => call'.outcome = Ok
           /\ call'.outcome = Ok =>
                 \E id \in DOMAIN wallets' :
                    /\ \A i \in DOMAIN wallets' :
                          wallets'[i].user_id = call.input.userId <=> i = id
                    /\ wallets'[id].balance = call.input.amount
                    /\ wallets'[id].max_negative_balance = 0
                    /\ \E t \in DOMAIN walletTransactions' :
                          /\ \A u \in DOMAIN walletTransactions' :
                                walletTransactions'[u].wallet_id = id <=> u = t
                          /\ walletTransactions'[t].amount = call.input.amount ]_vars

\* C18 witness: a credit of a positive amount has just created the second
\* wallet of the store.
C18_Witness ==
    /\ served("topUpWallet") \/ served("creditWallet")
    /\ call.outcome = Ok
    /\ call.input.amount > 0
    /\ Len(wallets) = 2
    /\ wallets[2].user_id = call.input.userId
    /\ Len(walletTransactions) = 2
    /\ walletTransactions[1].wallet_id = 1

transactionsOf(txs, id) == SelectSeq(txs, LAMBDA row : row.wallet_id = id)

\* C21: getWalletTransactions(user, limit) with a limit >= 0 returns the
\* wallet's transactions most-recent-first, at most limit of them and then
\* the limit most recent ones; for a user with no wallet it returns the
\* empty sequence; it changes no wallet and no transaction row.
C21_TransactionsMostRecentFirst ==
    [][ walletCallSettles("getWalletTransactions") =>
            LET id == getWalletByUserId(wallets, call.input.userId)
                mine == transactionsOf(walletTransactions, id)
                limit == call.input.limit
                n == IF limit < Len(mine) THEN limit ELSE Len(mine)
            IN  /\ wallets' = wallets
                /\ walletTransactions' = walletTransactions
                /\ id = 0 => call'.outcome = Ok /\ call'.result = <<>>
                /\ id # 0 /\ limit >= 0 =>
                      /\ call'.outcome = Ok
                      /\ Len(call'.result) = n
                      /\ \A k \in 1..n : call'.result[k] = mine[Len(mine) + 1 - k] ]_vars

\* C21 witness: a wallet holds two different transactions and the query with
\* limit 1 has returned just the later one.
C21_Witness ==
    /\ served("getWalletTransactions")
    /\ call.input.limit = 1
    /\ LET mine == transactionsOf(walletTransactions,
                                  getWalletByUserId(wallets, call.input.userId))
       IN  /\ Len(mine) = 2
           /\ mine[1] # mine[2]
           /\ call.result = <<mine[2]>>

\* the wallets whose user has role facility_owner
ownerWallets ==
    { i \in DOMAIN wallets :
        /\ wallets[i].user_id \in DOMAIN UsersTable
        /\ UsersTable[wallets[i].user_id].role = "facility_owner" }

\* C22: getFinancialSettlements returns, for a facility owner's wallet, a
\* payout entry with amount = balance when balance > 0, a collection entry
\* with amount = |balance + max_negative_balance| when balance <
\* -max_negative_balance, and no entry at all when -max_negative_balance <=
\* balance <= 0.
C22_SettlementEntries ==
    served("getFinancialSettlements") =>
        \A i \in ownerWallets :
            LET balance == wallets[i].balance
                maxNegativeBalance == wallets[i].max_negative_balance
                entries == { e \in call.result : e.facilityOwnerId = wallets[i].user_id }
                excess == balance + maxNegativeBalance
            IN  /\ balance > 0 =>
                      \E e \in entries :
                         e.settlementType = "payout" /\ e.settlementAmount = balance
                /\ balance <= 0 /\ balance < 0 - maxNegativeBalance =>
                      \E e \in entries :
                         /\ e.settlementType = "collection"
                         /\ e.settlementAmount = (IF excess < 0 THEN 0 - excess ELSE excess)
                /\ 0 - maxNegativeBalance <= balance /\ balance <= 0 => entries = {}

RECURSIVE bookingPaymentSum(_, _)
\* the sum of the booking_payment amounts among the first n transaction
\* rows that belong to the wallets of user userId
bookingPaymentSum(userId, n) ==
    IF n = 0 THEN 0
    ELSE LET tx == walletTransactions[n]
         IN  (IF /\ tx.type = "booking_payment"
                 /\ wallets[tx.wallet_id].user_id = userId
              THEN tx.amount ELSE 0)
             + bookingPaymentSum(userId, n - 1)

\* C23: getFacilityWalletSummary returns exactly one entry per user with
\* role facility_owner and none for other roles, with owedAmount = 0.85 x
\* |sum of that owner's booking_payment transaction amounts| (here in
\* hundredths of the amount unit), whatever the number of the owner's
\* facilities and whatever the owner's transactions of other types.
C23_OwedIsShareOfBookingPayments ==
    served("getFacilityWalletSummary") =>
        /\ \A e \in call.result :
              /\ e.userId \in DOMAIN UsersTable
              /\ UsersTable[e.userId].role = "facility_owner"
        /\ \A u \in DOMAIN UsersTable :
              UsersTable[u].role = "facility_owner" =>
                 LET entries == { e \in call.result : e.userId = u }
                     total == bookingPaymentSum(u, Len(walletTransactions))
                 IN  /\ Cardinality(entries) = 1
                     /\ \A e \in entries :
                           e.owedAmount = 85 * (IF total < 0 THEN 0 - total ELSE total)

\* C24: adjustWalletBalance(user, amount) on an existing wallet changes its
\* balance by exactly amount, positive or negative, and inserts exactly one
\* admin_adjustment transaction with that amount; for a user without a
\* wallet it fails with 'Wallet not found' and changes nothing.
C24_AdjustChangesBalanceByAmount ==
    [][ walletCallSettles("adjustWalletBalance") =>
            LET id == getWalletByUserId(wallets, call.input.userId)
            IN  IF id = 0
                THEN /\ call'.outcome = WalletNotFound
                     /\ wallets' = wallets
                     /\ walletTransactions' = walletTransactions
                ELSE /\ call'.outcome = Ok
                     /\ wallets' = [wallets EXCEPT
                                      ![id].balance = wallets[id].balance + call.input.amount]
                     /\ walletTransactions' =
                           Append(walletTransactions,
                                  [wallet_id |-> id, type |-> "admin_adjustment",
                                   amount |-> call.input.amount]) ]_vars

\* C24 witness: a negative adjustment has just been applied to a wallet
\* that held a positive balance, and its transaction is the latest row.
C24_Witness ==
    /\ served("adjustWalletBalance")
    /\ call.outcome = Ok
    /\ call.input.amount < 0
    /\ LET id == getWalletByUserId(wallets, call.input.userId)
       IN  /\ wallets[id].balance - call.input.amount > 0
           /\ walletTransactions[Len(walletTransactions)] =
                 [wallet_id |-> id, type |-> "admin_adjustment", amount |-> call.input.amount]

\* C26: wallet transaction rows are append-only: no step of topUpWallet,
\* debitWallet, creditWallet, adjustWalletBalance or setMaxNegativeBalance
\* modifies or deletes an existing row, so the rows of a wallet only grow.
C26_TransactionsAppendOnly ==
    [][ /\ Len(walletTransactions') >= Len(walletTransactions)
        /\ SubSeq(walletTransactions', 1, Len(walletTransactions)) = walletTransactions ]_vars

\* C26 witness: a call has just inserted a second transaction row, different
\* from the first one, which is still there.
C26_Witness ==
    /\ call.op \in {"topUpWallet", "debitWallet", "creditWallet", "adjustWalletBalance"}
    /\ call.outcome = Ok
    /\ Len(walletTransactions) = 2
    /\ walletTransactions[1] # walletTransactions[2]

\* C27: in every reachable state every wallet has max_negative_balance >= 0.
C27_LimitNeverNegative ==
    \A i \in DOMAIN wallets : wallets[i].max_negative_balance >= 0

\* C28: two concurrent topUpWallet / creditWallet calls for the same user,
\* who has no wallet, never leave two wallets for that user, and both
\* credits are applied: a call that found no wallet of an existing user is
\* not thrown out at its wallet insert but goes on to insert its transaction
\* and to add its amount to the one wallet.
C28_ConcurrentFirstCreditsBothApplied ==
    [][ /\ \A i, j \in DOMAIN wallets' :
              wallets'[i].user_id = wallets'[j].user_id => i = j
        /\ \A p \in Procs :
              (creditInsertWallet(p) /\ userExists(req[p].userId))
                 => pc'[p] = "insertTransaction" ]_vars

\* C29: adjustWalletBalance running concurrently with another balance
\* mutation of the same wallet loses no update: once all calls have finished,
\* each wallet's balance is the sum of the amounts the calls applied (wallets
\* start at 0) and equals the sum of its transaction amounts.
C29_AdjustLosesNoUpdate ==
    allIdle =>
        \A id \in DOMAIN wallets :
            /\ wallets[id].balance = succeeded[wallets[id].user_id]
            /\ wallets[id].balance = ledgerSum(walletTransactions, id)

---------------------------------------------------------------------------
\* Team claims

\* C25: respondToTeamInvitation processes a team_join invitation at most
\* once: only a pending invitation is answered; accept sets it to accepted
\* and adds the joining player (the receiver of a captain's invitation, the
\* sender of a join request) as a member of the team; reject sets it to
\* rejected and adds no member; answering a missing or already answered
\* invitation fails and changes no row.
C25_InvitationAnsweredOnce ==
    [][ (serving("respondToTeamInvitation") /\ call'.outcome # Running) =>
            LET id == call.input.invitationId
                pending == id \in DOMAIN invitations /\ invitations[id].status = "pending"
            IN  /\ teams' = teams
                /\ ~pending =>
                      /\ call'.outcome = InvitationNotFound
                      /\ invitations' = invitations
                      /\ teamMembers' = teamMembers
                /\ pending =>
                      LET inv == invitations[id]
                          joining == IF teams[inv.team_id].captain_id = inv.sender_id
                                     THEN inv.receiver_id ELSE inv.sender_id
                      IN  /\ call'.outcome = Ok
                          /\ invitations' =
                                [invitations EXCEPT
                                   ![id].status = IF call.input.accept THEN "accepted"
                                                  ELSE "rejected"]
                          /\ teamMembers' =
                                IF call.input.accept
                                THEN Append(teamMembers,
                                            [team_id |-> inv.team_id, player_id |-> joining,
                                             is_active |-> TRUE])
                                ELSE teamMembers ]_vars

\* C25 witness: a join request has been accepted and its sender is the
\* latest member of the team, while a second answer to an invitation that
\* was already answered has just failed.
C25_Witness ==
    /\ served("respondToTeamInvitation")
    /\ call.outcome = InvitationNotFound
    /\ call.input.invitationId \in DOMAIN invitations
    /\ LET inv == invitations[call.input.invitationId]
       IN  /\ inv.status = "accepted"
           /\ teams[inv.team_id].captain_id = inv.receiver_id
           /\ teamMembers[Len(teamMembers)] =
                 [team_id |-> inv.team_id, player_id |-> inv.sender_id, is_active |-> TRUE]

\* C30: after any sequence of createTeam, invitePlayerToTeam,
\* requestToJoinTeam and respondToTeamInvitation calls no player has more
\* than one active membership row in the same team.
C30_NoDuplicateMembership ==
    \A m, n \in DOMAIN teamMembers :
        ( /\ teamMembers[m].team_id = teamMembers[n].team_id
          /\ teamMembers[m].player_id = teamMembers[n].player_id
          /\ teamMembers[m].is_active /\ teamMembers[n].is_active ) => m = n

====
